---- MODULE Spec2Model ----
(***************************************************************************)
(* Celery tasks of temba/flows/tasks.py, run by a pool of workers: the     *)
(* three lock-guarded sweepers (check_flows_task, check_flow_timeouts_task,*)
(* squash_flowruncounts) against the run store, the redis lock keys, the   *)
(* handler queue and the run counters; the flow stats check and recompute; *)
(* update_run_expirations_task; start_msg_flow_batch_task; and the tasks   *)
(* that take the id of an export task, a flow start or a flow.             *)
(***************************************************************************)
EXTENDS Integers, FiniteSets, Bags, TLC

\* ------------------------------------------------------------- bounds
MaxNow == 1
MaxEvents == 2
MaxIncrements == 3
MaxStarted == 1
MaxScheduled == 1

\* ---------------------------------------------------------- constants
\* r.lock(key, timeout=900)
LockTimeout == 900

Workers == {"w1", "w2"}
RunIds == {1, 2}
Flows == {"f1", "f2"}
\* primary keys of export tasks and of flow starts
EntityIds == {"a", "b"}
NULL == -1
\* deadlines a run can carry: none, or a clock reading
Deadlines == {NULL} \cup (0..MaxNow)
NoLock == [holder |-> "none", ttl |-> 0]
NotClean == [n |-> 0, at |-> NULL]
Min(a, b) == IF a < b THEN a ELSE b
Max(a, b) == IF a < b THEN b ELSE a

CHECK_FLOWS == "check_flows"
CHECK_FLOW_TIMEOUTS == "check_flow_timeouts"
SQUASH_FLOWRUNCOUNTS == "squash_flowruncounts"
CHECK_FLOW_STATS_ACCURACY == "check_flow_stats_accuracy_task"
CALCULATE_FLOW_STATS == "calculate_flow_stats"
UPDATE_RUN_EXPIRATIONS == "update_run_expirations_task"
START_MSG_FLOW_BATCH == "start_msg_flow_batch"
EXPORT_FLOW_RESULTS == "export_flow_results_task"
START_FLOW == "start_flow_task"
DELETE_FLOW_RESULTS == "delete_flow_results_task"
Keys == {CHECK_FLOWS, CHECK_FLOW_TIMEOUTS, SQUASH_FLOWRUNCOUNTS}

EXIT_TYPE_EXPIRED == "expired"
EXIT_TYPE_COMPLETED == "completed"
EXIT_TYPE_NONE == "none"

HANDLER_QUEUE == "handler"
HANDLE_EVENT_TASK == "handle_event"
TIMEOUT_EVENT == "timeout"

VARIABLES
  now,        \* timezone.now(), the application clock
  runs,       \* FlowRun table: run id -> row, for the runs that exist
  exited,     \* run id -> number of bulk-exit updates applied to its row
  clean,      \* expiry sweeps finished since a run was last created or
              \* completed (n, at most 2) and the latest clock they used (at)
  lock,       \* redis: lock key -> [holder, ttl] or NoLock
  pc,         \* per worker: where its task invocation stands
  task,       \* per worker: the task (= lock key) it is running
  result,     \* per worker: "skipped" (key was held), "error" (an exception
              \* was raised) or "none", for its current or last invocation
  ttlElapsed, \* per worker: the key it acquired expired under it
  sweepNow,   \* per worker: timezone.now() as read by the queryset filter
  sel,        \* per worker: rows fetched by the timeout query
  todo,       \* per worker: rows of sel the for loop has not reached yet
  sent,       \* per worker: events this invocation pushed
  events,     \* handler queue: bag of pushed tasks
  unsq,       \* FlowRunCount: flow -> number of unsquashed increment rows
  agg,        \* FlowRunCount: flow -> squashed aggregate
  issued,     \* flow -> increments issued so far
  flowsTodo,  \* per worker: flows squash_counts still has to collapse
  incDuring,  \* per worker: an increment arrived since its squash started
  cache,      \* redis: flow -> cached runs_started count, NULL when no key
  nRuns,      \* FlowRun table: flow -> rows by kind of contact (real, test)
  scheduled,  \* celery: flow -> calculate_flow_stats_task calls queued
  arg,        \* per worker: the argument its task was invoked with
  rd,         \* per worker: runs_started_cached and runs_started as read
  chain,      \* flow -> how far a check-then-recompute sequence has got
              \* since the flow's counts were last disturbed
  follow,     \* per worker: its recompute started after such a check
  flowState,  \* Flow table: flow -> "active", "inactive" (is_active=False)
              \* or "missing" (no row)
  exportTasks, \* ExportFlowResultsTask table: ids of the rows that exist
  flowStarts, \* FlowStart table: ids of the rows that exist
  done,       \* work handed to the models: set of <<method, id>>
  updTodo,    \* per worker: runs update_run_expirations_task still has to update
  outer,      \* per worker: its check_flows_task was applied inline by
              \* update_run_expirations_task (read while task is check_flows)
  batchQueue, \* queue 'start_msg_flow_batch': the entries waiting
  popped,     \* per worker: the entry pop_task returned, NoEntry for None
  started,    \* bag of entry ids flow.start_msg_flow_batch was called for
  dropped     \* entries popped by an invocation that returned without a start

vars == <<now, runs, exited, clean, lock, pc, task, result, ttlElapsed, sweepNow,
          sel, todo, sent, events, unsq, agg, issued, flowsTodo, incDuring,
          cache, nRuns, scheduled, arg, rd, chain, follow, flowState,
          exportTasks, flowStarts, done, updTodo, outer,
          batchQueue, popped, started, dropped>>

runVars == <<now, runs, exited, clean>>
countVars == <<unsq, agg, issued>>
timeoutLocals == <<sel, todo, sent>>
squashLocals == <<flowsTodo, incDuring>>
statVars == <<cache, nRuns, scheduled, arg, rd, chain, follow>>
\* everything the sweepers and their environment never touch
entVars == <<exportTasks, flowStarts, done>>
updVars == <<updTodo, outer>>
batchVars == <<batchQueue, popped, started, dropped>>
ext == <<statVars, flowState, entVars, updTodo, outer, batchVars>>

\* run.flow_id of a run: run 1 is in flow f1, run 2 in flow f2
FlowOf(r) == IF r % 2 = 1 THEN "f1" ELSE "f2"

\* run.org_id of a run: runs 1, 3, .. belong to one org, 2, 4, .. to another
OrgOf(r) == 10 + (r % 2)

NoReads == [cached |-> 0, count |-> 0]
NoEntry == [id |-> "none", flow |-> "none"]
\* batches a flow start can put on the queue: the entry's id and task['flow']
BatchEntries == {[id |-> "a", flow |-> "f1"], [id |-> "b", flow |-> "f2"]}

\* the stores and workers the sweepers work on
InitStores ==
  /\ now = 0
  /\ runs = << >>
  /\ exited = [r \in RunIds |-> 0]
  /\ clean = NotClean
  /\ pc = [w \in Workers |-> "idle"]
  /\ task = [w \in Workers |-> CHECK_FLOWS]
  /\ result = [w \in Workers |-> "none"]
  /\ ttlElapsed = [w \in Workers |-> FALSE]
  /\ sweepNow = [w \in Workers |-> 0]
  /\ sel = [w \in Workers |-> {}]
  /\ todo = [w \in Workers |-> {}]
  /\ sent = [w \in Workers |-> EmptyBag]
  /\ events = EmptyBag
  /\ unsq = [f \in Flows |-> 0]
  /\ agg = [f \in Flows |-> 0]
  /\ issued = [f \in Flows |-> 0]
  /\ flowsTodo = [w \in Workers |-> {}]
  /\ incDuring = [w \in Workers |-> FALSE]

InitSweepers ==
  /\ InitStores
  /\ lock = [k \in Keys |-> NoLock]

\* export tasks and flow starts wait for their celery task
InitEntities ==
  /\ exportTasks = EntityIds
  /\ flowStarts = EntityIds
  /\ done = {}

\* worker locals and scheduling state of the per-flow tasks
InitLocals ==
  /\ popped = [w \in Workers |-> NoEntry]
  /\ started = EmptyBag
  /\ dropped = {}
  /\ scheduled = [f \in Flows |-> 0]
  /\ arg = [w \in Workers |-> "f1"]
  /\ rd = [w \in Workers |-> NoReads]
  /\ chain = [f \in Flows |-> "none"]
  /\ follow = [w \in Workers |-> FALSE]
  /\ updTodo = [w \in Workers |-> {}]
  /\ outer = [w \in Workers |-> FALSE]

Init ==
  /\ InitSweepers
  /\ InitLocals
  /\ cache = [f \in Flows |-> NULL]
  /\ nRuns = [f \in Flows |-> [real |-> 0, test |-> 0]]
  /\ flowState = [f \in Flows |-> "active"]
  /\ InitEntities
  /\ batchQueue = {}

\* ------------------------------------------------ environment: runs, clock
\* a flow starts for a contact: a live run with its two deadlines
StartRun(r, e, t) ==
  /\ r \notin DOMAIN runs
  /\ runs' = [x \in DOMAIN runs \cup {r} |->
                IF x = r THEN [is_active |-> TRUE, exit_type |-> EXIT_TYPE_NONE,
                               expires_on |-> e, timeout_on |-> t, org |-> OrgOf(r)]
                ELSE runs[x]]
  /\ clean' = NotClean
  /\ UNCHANGED <<now, exited, lock, pc, task, result, ttlElapsed, sweepNow, timeoutLocals,
                 events, countVars, squashLocals, ext>>

\* normal completion of a live run
CompleteRun(r) ==
  /\ r \in DOMAIN runs
  /\ runs[r].is_active
  /\ runs' = [runs EXCEPT ![r].is_active = FALSE, ![r].exit_type = EXIT_TYPE_COMPLETED]
  /\ clean' = NotClean
  /\ UNCHANGED <<now, exited, lock, pc, task, result, ttlElapsed, sweepNow, timeoutLocals,
                 events, countVars, squashLocals, ext>>

Tick ==
  /\ now < MaxNow
  /\ now' = now + 1
  /\ UNCHANGED <<runs, exited, clean, lock, pc, task, result, ttlElapsed, sweepNow, timeoutLocals,
                 events, countVars, squashLocals, ext>>

\* ------------------------------------------------------------ redis lock
InBody(w) == pc[w] \in {"filter", "bulk_exit", "query", "push", "squash",
                        "squash_loop"}

\* r.get(key): the value stored under the key, None when there is none
RedisGet(k) == IF lock[k] = NoLock THEN "None" ELSE lock[k].holder

\* variant: the key is kept until it is deleted
KeyExpire_Never(k) ==
  /\ lock[k] # NoLock
  /\ lock[k].ttl > 0
  /\ UNCHANGED vars

\* the key's TTL runs out: redis deletes it, whoever set it
KeyExpire(k) ==
  /\ lock[k] # NoLock
  /\ lock[k].ttl > 0
  /\ lock' = [lock EXCEPT ![k] = NoLock]
  /\ ttlElapsed' = [w \in Workers |->
                      IF w = lock[k].holder /\ task[w] = k /\ (InBody(w) \/ pc[w] = "unlock")
                      THEN TRUE ELSE ttlElapsed[w]]
  /\ UNCHANGED <<runVars, pc, task, result, sweepNow, timeoutLocals, events,
                 countVars, squashLocals, ext>>

\* a task invocation ends: its local variables are gone
Forget(w) ==
  /\ ttlElapsed' = [ttlElapsed EXCEPT ![w] = FALSE]
  /\ sweepNow' = [sweepNow EXCEPT ![w] = 0]
  /\ sel' = [sel EXCEPT ![w] = {}]
  /\ todo' = [todo EXCEPT ![w] = {}]
  /\ sent' = [sent EXCEPT ![w] = EmptyBag]
  /\ flowsTodo' = [flowsTodo EXCEPT ![w] = {}]
  /\ incDuring' = [incDuring EXCEPT ![w] = FALSE]

\* first line of a sweeper's body, by task
BodyStart(t) ==
  CASE t = CHECK_FLOWS -> "filter"
    [] t = CHECK_FLOW_TIMEOUTS -> "query"
    [] OTHER -> "squash"

\* a worker picks up one of the sweeper tasks; timeout sweeps are started
\* only while fewer than MaxEvents tasks sit on the handler queue
Invoke(w, t) ==
  /\ pc[w] = "idle"
  /\ t = CHECK_FLOW_TIMEOUTS => BagCardinality(events) < MaxEvents
  /\ pc' = [pc EXCEPT ![w] = "get"]
  /\ task' = [task EXCEPT ![w] = t]
  /\ result' = [result EXCEPT ![w] = "none"]
  /\ outer' = [outer EXCEPT ![w] = FALSE]
  /\ UNCHANGED <<runVars, lock, ttlElapsed, sweepNow, timeoutLocals, events,
                 countVars, squashLocals, statVars, flowState, entVars, updTodo, batchVars>>

\* variant: the guard is missing, the task goes on to the lock whatever
\* r.get(key) returned
GuardGet_Unguarded(w) ==
  /\ pc[w] = "get"
  /\ pc' = [pc EXCEPT ![w] = "lock"]
  /\ UNCHANGED <<runVars, lock, task, result, ttlElapsed, sweepNow, timeoutLocals,
                 events, countVars, squashLocals, ext>>

\* if not r.get(key): ... ; a held key ends the task at once
GuardGet(w) ==
  /\ pc[w] = "get"
  /\ IF RedisGet(task[w]) # "None"
     THEN /\ pc' = [pc EXCEPT ![w] = "idle"]
          /\ result' = [result EXCEPT ![w] = "skipped"]
     ELSE /\ pc' = [pc EXCEPT ![w] = "lock"]
          /\ UNCHANGED result
  /\ UNCHANGED <<runVars, lock, task, ttlElapsed, sweepNow, timeoutLocals, events,
                 countVars, squashLocals, ext>>

\* variant: the key is written whether or not it exists (SET without NX)
LockAcquire_Overwrite(w) ==
  /\ pc[w] = "lock"
  /\ lock' = [lock EXCEPT ![task[w]] = [holder |-> w, ttl |-> LockTimeout]]
  /\ pc' = [pc EXCEPT ![w] = BodyStart(task[w])]
  /\ UNCHANGED <<runVars, task, result, ttlElapsed, sweepNow, timeoutLocals, events,
                 countVars, squashLocals, ext>>

\* variant: r.lock(key) without a timeout, the key never expires
LockAcquire_NoTimeout(w) ==
  /\ pc[w] = "lock"
  /\ lock[task[w]] = NoLock
  /\ lock' = [lock EXCEPT ![task[w]] = [holder |-> w, ttl |-> 0]]
  /\ pc' = [pc EXCEPT ![w] = BodyStart(task[w])]
  /\ UNCHANGED <<runVars, task, result, ttlElapsed, sweepNow, timeoutLocals, events,
                 countVars, squashLocals, ext>>

\* with r.lock(key, timeout=900): blocks until the key can be set
LockAcquire(w) ==
  /\ pc[w] = "lock"
  /\ lock[task[w]] = NoLock
  /\ lock' = [lock EXCEPT ![task[w]] = [holder |-> w, ttl |-> LockTimeout]]
  /\ pc' = [pc EXCEPT ![w] = BodyStart(task[w])]
  /\ UNCHANGED <<runVars, task, result, ttlElapsed, sweepNow, timeoutLocals, events,
                 countVars, squashLocals, ext>>

\* variant: the key is deleted only when the body ended without an
\* exception (acquire and release around the body, no try/finally)
LockRelease_OnlyOnSuccess(w) ==
  /\ pc[w] = "unlock"
  /\ IF lock[task[w]].holder = w
     THEN /\ lock' = IF result[w] = "error" THEN lock
                     ELSE [lock EXCEPT ![task[w]] = NoLock]
          /\ UNCHANGED result
     ELSE /\ UNCHANGED lock
          /\ result' = [result EXCEPT ![w] = "error"]
  /\ pc' = [pc EXCEPT ![w] = "idle"]
  /\ Forget(w)
  /\ UNCHANGED <<runVars, task, events, countVars, ext>>

\* leaving the with block: the key is deleted if it is still this holder's,
\* otherwise the release raises
LockRelease(w) ==
  /\ pc[w] = "unlock"
  /\ IF lock[task[w]].holder = w
     THEN /\ lock' = [lock EXCEPT ![task[w]] = NoLock]
          /\ UNCHANGED result
     ELSE /\ UNCHANGED lock
          /\ result' = [result EXCEPT ![w] = "error"]
  /\ pc' = [pc EXCEPT ![w] = "idle"]
  /\ Forget(w)
  /\ UNCHANGED <<runVars, task, events, countVars, ext>>

\* the worker process dies in the middle of a task; nothing is cleaned up
Crash(w) ==
  /\ pc[w] # "idle"
  /\ pc' = [pc EXCEPT ![w] = "idle"]
  /\ result' = [result EXCEPT ![w] = "none"]
  /\ Forget(w)
  /\ UNCHANGED <<runVars, lock, task, events, countVars, ext>>

\* ------------------------------------------------------- check_flows_task
\* variant: the filter without is_active=True
ExpiredRuns_IgnoringActive(t) ==
  {r \in DOMAIN runs : runs[r].expires_on # NULL /\ runs[r].expires_on <= t}

\* FlowRun.objects.filter(is_active=True, expires_on__lte=t) on the table
ExpiredRuns(t) ==
  {r \in DOMAIN runs : /\ runs[r].is_active
                       /\ runs[r].expires_on # NULL
                       /\ runs[r].expires_on <= t}

\* FlowRun.bulk_exit(runs, exit_type): one update of the matched rows
BulkExit(ids, exit_type) ==
  [r \in DOMAIN runs |->
     IF r \in ids THEN [runs[r] EXCEPT !.is_active = FALSE, !.exit_type = exit_type]
     ELSE runs[r]]

\* runs = FlowRun.objects.filter(..., expires_on__lte=timezone.now()): the
\* clock is read here, the rows are not
CheckFlowsFilter(w) ==
  /\ pc[w] = "filter"
  /\ sweepNow' = [sweepNow EXCEPT ![w] = now]
  /\ pc' = [pc EXCEPT ![w] = "bulk_exit"]
  /\ UNCHANGED <<runVars, lock, task, result, ttlElapsed, timeoutLocals, events,
                 countVars, squashLocals, ext>>

\* FlowRun.bulk_exit(runs, FlowRun.EXIT_TYPE_EXPIRED): the queryset is
\* evaluated against the table as it is now
CheckFlowsBulkExit(w) ==
  /\ pc[w] = "bulk_exit"
  /\ runs' = BulkExit(ExpiredRuns(sweepNow[w]), EXIT_TYPE_EXPIRED)
  /\ exited' = [r \in RunIds |->
                  IF r \in ExpiredRuns(sweepNow[w]) THEN Min(exited[r] + 1, 2)
                  ELSE exited[r]]
  /\ clean' = [n |-> Min(clean.n + 1, 2), at |-> Max(clean.at, sweepNow[w])]
  /\ pc' = [pc EXCEPT ![w] = "unlock"]
  /\ UNCHANGED <<now, lock, task, result, ttlElapsed, sweepNow, timeoutLocals,
                 events, countVars, squashLocals, ext>>

\* ------------------------------------------------ check_flow_timeouts_task
\* variant: timeout_on__lt instead of timeout_on__lte
TimedOutRuns_Strict(t) ==
  {r \in DOMAIN runs : /\ runs[r].is_active
                       /\ runs[r].timeout_on # NULL
                       /\ runs[r].timeout_on < t}

\* variant: runs with a timeout task already on the handler queue are
\* left out
TimedOutRuns_Unsignalled(t) ==
  {r \in DOMAIN runs : /\ runs[r].is_active
                       /\ runs[r].timeout_on # NULL
                       /\ runs[r].timeout_on <= t
                       /\ \A e \in BagToSet(events) : e.args.run # r}

\* FlowRun.objects.filter(is_active=True, timeout_on__lte=t) on the table
TimedOutRuns(t) ==
  {r \in DOMAIN runs : /\ runs[r].is_active
                       /\ runs[r].timeout_on # NULL
                       /\ runs[r].timeout_on <= t}

\* runs.only('id', 'org', 'timeout_on'): the fields fetched for one run
RunRow(r) == [id |-> r, org_id |-> runs[r].org, timeout_on |-> runs[r].timeout_on]

\* dict(type=TIMEOUT_EVENT, run=run.id, timeout_on=run.timeout_on)
TimeoutEventArgs(row) ==
  [type |-> TIMEOUT_EVENT, run |-> row.id, timeout_on |-> row.timeout_on]

\* push_task(org, queue, task_name, args): one more task on the org's queue
PushTask(q, org, queue, task_name, args) ==
  q (+) SetToBag({[org |-> org, queue |-> queue, task |-> task_name, args |-> args]})

\* variant: the task is addressed by run.id instead of run.org_id
PushTimeout_ByRunId(q, row) ==
  PushTask(q, row.id, HANDLER_QUEUE, HANDLE_EVENT_TASK, TimeoutEventArgs(row))

\* the handler queue after line 63 ran for one fetched row
PushTimeout(q, row) ==
  PushTask(q, row.org_id, HANDLER_QUEUE, HANDLE_EVENT_TASK, TimeoutEventArgs(row))

\* runs = FlowRun.objects.filter(...).only(...); for run in runs: the clock
\* is read and the rows are fetched when the loop starts
TimeoutsQuery(w) ==
  /\ pc[w] = "query"
  /\ sweepNow' = [sweepNow EXCEPT ![w] = now]
  /\ sel' = [sel EXCEPT ![w] = {RunRow(r) : r \in TimedOutRuns(now)}]
  /\ todo' = [todo EXCEPT ![w] = sel'[w]]
  /\ pc' = [pc EXCEPT ![w] = IF sel'[w] = {} THEN "unlock" ELSE "push"]
  /\ UNCHANGED <<runVars, lock, task, result, ttlElapsed, sent, events, countVars,
                 squashLocals, ext>>

\* variant: the loop also clears the deadline of the run it signalled
TimeoutsPush_ClearingDeadline(w) ==
  /\ pc[w] = "push"
  /\ \E row \in todo[w] :
       /\ events' = PushTimeout(events, row)
       /\ sent' = [sent EXCEPT ![w] = PushTimeout(@, row)]
       /\ todo' = [todo EXCEPT ![w] = @ \ {row}]
       /\ pc' = [pc EXCEPT ![w] = IF todo'[w] = {} THEN "unlock" ELSE "push"]
       /\ runs' = [runs EXCEPT ![row.id].timeout_on = NULL]
  /\ UNCHANGED <<now, exited, clean, lock, task, result, ttlElapsed, sweepNow, sel,
                 countVars, squashLocals, ext>>

\* one turn of the for loop: push_task(...) for the next fetched row
TimeoutsPush(w) ==
  /\ pc[w] = "push"
  /\ \E row \in todo[w] :
       /\ events' = PushTimeout(events, row)
       /\ sent' = [sent EXCEPT ![w] = PushTimeout(@, row)]
       /\ todo' = [todo EXCEPT ![w] = @ \ {row}]
       /\ pc' = [pc EXCEPT ![w] = IF todo'[w] = {} THEN "unlock" ELSE "push"]
  /\ UNCHANGED <<runVars, lock, task, result, ttlElapsed, sweepNow, sel, countVars,
                 squashLocals, ext>>

\* push_task raises for the next fetched row: nothing catches it, the
\* exception leaves the for loop and the with block
TimeoutsPushFail(w) ==
  /\ pc[w] = "push"
  /\ todo[w] # {}
  /\ pc' = [pc EXCEPT ![w] = "unlock"]
  /\ result' = [result EXCEPT ![w] = "error"]
  /\ UNCHANGED <<runVars, lock, task, ttlElapsed, sweepNow, timeoutLocals, events,
                 countVars, squashLocals, ext>>

\* --------------------------------------------------- squash_flowruncounts
\* a run-started event adds one unsquashed increment row for its flow
Increment(f) ==
  /\ issued["f1"] + issued["f2"] < MaxIncrements
  /\ unsq' = [unsq EXCEPT ![f] = @ + 1]
  /\ issued' = [issued EXCEPT ![f] = @ + 1]
  /\ incDuring' = [w \in Workers |->
                     IF task[w] = SQUASH_FLOWRUNCOUNTS /\ pc[w] \in {"squash_loop", "unlock"}
                     THEN TRUE ELSE incDuring[w]]
  /\ UNCHANGED <<runVars, lock, pc, task, result, ttlElapsed, sweepNow,
                 timeoutLocals, events, agg, flowsTodo, ext>>

\* variant: the sum of the deleted rows replaces the aggregate
SquashedAgg_Overwrite(f) == unsq[f]

\* one atomic unit of squash_counts: the flow's unsquashed rows are deleted
\* and their sum is added to the aggregate
SquashedAgg(f) == agg[f] + unsq[f]

\* FlowRunCount.squash_counts() starts: the flows that have unsquashed rows
SquashCounts(w) ==
  /\ pc[w] = "squash"
  /\ flowsTodo' = [flowsTodo EXCEPT ![w] = {f \in Flows : unsq[f] > 0}]
  /\ incDuring' = [incDuring EXCEPT ![w] = FALSE]
  /\ pc' = [pc EXCEPT ![w] = IF flowsTodo'[w] = {} THEN "unlock" ELSE "squash_loop"]
  /\ UNCHANGED <<runVars, lock, task, result, ttlElapsed, sweepNow, timeoutLocals,
                 events, countVars, ext>>

\* squash_counts collapses one of those flows
SquashFlow(w) ==
  /\ pc[w] = "squash_loop"
  /\ \E f \in flowsTodo[w] :
       /\ agg' = [agg EXCEPT ![f] = SquashedAgg(f)]
       /\ unsq' = [unsq EXCEPT ![f] = 0]
       /\ flowsTodo' = [flowsTodo EXCEPT ![w] = @ \ {f}]
       /\ pc' = [pc EXCEPT ![w] = IF flowsTodo'[w] = {} THEN "unlock" ELSE "squash_loop"]
  /\ UNCHANGED <<runVars, lock, task, result, ttlElapsed, sweepNow, timeoutLocals,
                 events, issued, incDuring, ext>>

\* ------------------------------------------- flow stats: check and recompute
\* a run of flow f is created for a real or a test contact; the flow's
\* counts are disturbed, a check-then-recompute sequence starts afresh
NewRun(f, kind) ==
  /\ flowState[f] # "missing"
  /\ nRuns["f1"].real + nRuns["f1"].test + nRuns["f2"].real + nRuns["f2"].test
       < MaxStarted
  /\ nRuns' = [nRuns EXCEPT ![f][kind] = @ + 1]
  /\ chain' = [chain EXCEPT ![f] = "none"]
  /\ follow' = [w \in Workers |-> IF arg[w] = f THEN FALSE ELSE follow[w]]
  /\ UNCHANGED <<runVars, lock, pc, task, result, ttlElapsed, sweepNow, timeoutLocals,
                 events, countVars, squashLocals, cache, scheduled, arg, rd, flowState, entVars, updVars, batchVars>>

\* the flow's row is deleted
DeleteFlow(f) ==
  /\ flowState[f] # "missing"
  /\ flowState' = [flowState EXCEPT ![f] = "missing"]
  /\ chain' = [chain EXCEPT ![f] = "none"]
  /\ follow' = [w \in Workers |-> IF arg[w] = f THEN FALSE ELSE follow[w]]
  /\ UNCHANGED <<runVars, lock, pc, task, result, ttlElapsed, sweepNow, timeoutLocals,
                 events, countVars, squashLocals, cache, nRuns, scheduled, arg, rd,
                 entVars, updVars, batchVars>>

\* the number the cache stands for: no key counts as nothing cached
Stored(f) == IF cache[f] = NULL THEN 0 ELSE cache[f]

\* the periodic check is started for a flow, while fewer than MaxScheduled
\* recomputes wait on the celery queue
InvokeCheck(w, f) ==
  /\ pc[w] = "idle"
  /\ scheduled["f1"] + scheduled["f2"] < MaxScheduled
  /\ pc' = [pc EXCEPT ![w] = "flow_get"]
  /\ task' = [task EXCEPT ![w] = CHECK_FLOW_STATS_ACCURACY]
  /\ result' = [result EXCEPT ![w] = "none"]
  /\ arg' = [arg EXCEPT ![w] = f]
  /\ rd' = [rd EXCEPT ![w] = NoReads]
  /\ follow' = [follow EXCEPT ![w] = Stored(f) # nRuns[f].real]
  /\ UNCHANGED <<runVars, lock, ttlElapsed, sweepNow, timeoutLocals, events, countVars,
                 squashLocals, cache, nRuns, scheduled, chain, flowState, entVars, updVars, batchVars>>

\* a worker takes a queued calculate_flow_stats_task.delay(pk) call
RunScheduled(w, f) ==
  /\ pc[w] = "idle"
  /\ scheduled[f] > 0
  /\ scheduled' = [scheduled EXCEPT ![f] = @ - 1]
  /\ pc' = [pc EXCEPT ![w] = "flow_get"]
  /\ task' = [task EXCEPT ![w] = CALCULATE_FLOW_STATS]
  /\ result' = [result EXCEPT ![w] = "none"]
  /\ arg' = [arg EXCEPT ![w] = f]
  /\ rd' = [rd EXCEPT ![w] = NoReads]
  /\ follow' = [follow EXCEPT ![w] = chain[f] = "checked"]
  /\ UNCHANGED <<runVars, lock, ttlElapsed, sweepNow, timeoutLocals, events, countVars,
                 squashLocals, cache, nRuns, chain, flowState, entVars, updVars, batchVars>>

\* a per-flow task ends: its argument and what it read are gone
ForgetArgs(w) ==
  /\ arg' = [arg EXCEPT ![w] = "f1"]
  /\ rd' = [rd EXCEPT ![w] = NoReads]

\* flow = Flow.objects.get(pk=flow_id): raises DoesNotExist without a row
StatsGetFlow(w) ==
  /\ pc[w] = "flow_get"
  /\ IF flowState[arg[w]] = "missing"
     THEN /\ pc' = [pc EXCEPT ![w] = "idle"]
          /\ result' = [result EXCEPT ![w] = "error"]
          /\ ForgetArgs(w)
          /\ follow' = [follow EXCEPT ![w] = FALSE]
     ELSE /\ pc' = [pc EXCEPT ![w] = "read_cache"]
          /\ UNCHANGED <<result, arg, rd, follow>>
  /\ UNCHANGED <<runVars, lock, task, ttlElapsed, sweepNow, timeoutLocals, events,
                 countVars, squashLocals, cache, nRuns, scheduled, chain, flowState, entVars, updVars, batchVars>>

\* 0 if runs_started_cached is None else int(runs_started_cached)
CachedInt(v) == IF v = NULL THEN 0 ELSE v

\* r.get(flow.get_stats_cache_key(FlowStatsCache.runs_started_count))
StatsReadCache(w) ==
  /\ pc[w] = "read_cache"
  /\ rd' = [rd EXCEPT ![w].cached = CachedInt(cache[arg[w]])]
  /\ pc' = [pc EXCEPT ![w] = "count"]
  /\ UNCHANGED <<runVars, lock, task, result, ttlElapsed, sweepNow, timeoutLocals,
                 events, countVars, squashLocals, cache, nRuns, scheduled, arg, chain,
                 follow, flowState, entVars, updVars, batchVars>>

\* variant: the count without the contact__is_test=False filter
RunsStarted_WithTest(f) == nRuns[f].real + nRuns[f].test

\* flow.runs.filter(contact__is_test=False).count()
RunsStarted(f) == nRuns[f].real

StatsCount(w) ==
  /\ pc[w] = "count"
  /\ rd' = [rd EXCEPT ![w].count = RunsStarted(arg[w])]
  /\ pc' = [pc EXCEPT ![w] = "compare"]
  /\ UNCHANGED <<runVars, lock, task, result, ttlElapsed, sweepNow, timeoutLocals,
                 events, countVars, squashLocals, cache, nRuns, scheduled, arg, chain,
                 follow, flowState, entVars, updVars, batchVars>>

\* variant: the check repairs the cache itself instead of scheduling
AccuracyCompare_Collapsed(w) ==
  /\ pc[w] = "compare"
  /\ task[w] = CHECK_FLOW_STATS_ACCURACY
  /\ cache' = [cache EXCEPT ![arg[w]] = rd[w].count]
  /\ pc' = [pc EXCEPT ![w] = "idle"]
  /\ ForgetArgs(w)
  /\ follow' = [follow EXCEPT ![w] = FALSE]
  /\ UNCHANGED <<runVars, lock, task, result, ttlElapsed, sweepNow, timeoutLocals,
                 events, countVars, squashLocals, nRuns, scheduled, chain, flowState, entVars, updVars, batchVars>>

\* if runs_started != runs_started_cached: log the discrepancy and
\* calculate_flow_stats_task.delay(flow.pk)
AccuracyCompare(w) ==
  /\ pc[w] = "compare"
  /\ task[w] = CHECK_FLOW_STATS_ACCURACY
  /\ IF rd[w].count # rd[w].cached
     THEN /\ scheduled' = [scheduled EXCEPT ![arg[w]] = @ + 1]
          /\ chain' = [chain EXCEPT ![arg[w]] = "checked"]
     ELSE /\ UNCHANGED scheduled
          /\ chain' = [chain EXCEPT ![arg[w]] = IF follow[w] THEN "missed" ELSE @]
  /\ pc' = [pc EXCEPT ![w] = "idle"]
  /\ ForgetArgs(w)
  /\ follow' = [follow EXCEPT ![w] = FALSE]
  /\ UNCHANGED <<runVars, lock, task, result, ttlElapsed, sweepNow, timeoutLocals,
                 events, countVars, squashLocals, cache, nRuns, flowState, entVars, updVars, batchVars>>

\* Flow.do_calculate_flow_stats(): the cached count is derived again from
\* the run table and written over the old value
DoCalculateFlowStats(f) == [cache EXCEPT ![f] = nRuns[f].real]

\* variant: the recompute writes whatever the comparison says
CalculateCompare_Unconditional(w) ==
  /\ pc[w] = "compare"
  /\ task[w] = CALCULATE_FLOW_STATS
  /\ cache' = DoCalculateFlowStats(arg[w])
  /\ pc' = [pc EXCEPT ![w] = "idle"]
  /\ ForgetArgs(w)
  /\ follow' = [follow EXCEPT ![w] = FALSE]
  /\ UNCHANGED <<runVars, lock, task, result, ttlElapsed, sweepNow, timeoutLocals,
                 events, countVars, squashLocals, nRuns, scheduled, chain, flowState, entVars, updVars, batchVars>>

\* if runs_started != runs_started_cached:
\*     Flow.objects.get(pk=flow_id).do_calculate_flow_stats()
CalculateCompare(w) ==
  /\ pc[w] = "compare"
  /\ task[w] = CALCULATE_FLOW_STATS
  /\ pc' = [pc EXCEPT ![w] = "idle"]
  /\ IF rd[w].count # rd[w].cached /\ flowState[arg[w]] = "missing"
     THEN /\ result' = [result EXCEPT ![w] = "error"]
          /\ follow' = [follow EXCEPT ![w] = FALSE]
          /\ UNCHANGED <<cache, chain>>
     ELSE /\ UNCHANGED result
          /\ IF rd[w].count # rd[w].cached
             THEN /\ cache' = DoCalculateFlowStats(arg[w])
                  /\ follow' = [v \in Workers |->
                                  IF v = w \/ (arg[v] = arg[w]
                                               /\ task[v] = CHECK_FLOW_STATS_ACCURACY)
                                  THEN FALSE ELSE follow[v]]
             ELSE follow' = [follow EXCEPT ![w] = FALSE]
                  /\ UNCHANGED cache
          /\ chain' = [chain EXCEPT ![arg[w]] =
                         IF follow[w] /\ @ = "checked" THEN "healed" ELSE @]
  /\ ForgetArgs(w)
  /\ UNCHANGED <<runVars, lock, task, ttlElapsed, sweepNow, timeoutLocals, events,
                 countVars, squashLocals, nRuns, scheduled, flowState, entVars, updVars, batchVars>>

\* ------------------------------------------- tasks that take an entity id
\* the row of an export task or of a flow start is deleted
DeleteExportTask(id) ==
  /\ id \in exportTasks
  /\ exportTasks' = exportTasks \ {id}
  /\ UNCHANGED <<runVars, lock, pc, task, result, ttlElapsed, sweepNow, timeoutLocals,
                 events, countVars, squashLocals, statVars, flowState, flowStarts, done, updVars, batchVars>>

DeleteFlowStart(id) ==
  /\ id \in flowStarts
  /\ flowStarts' = flowStarts \ {id}
  /\ UNCHANGED <<runVars, lock, pc, task, result, ttlElapsed, sweepNow, timeoutLocals,
                 events, countVars, squashLocals, statVars, flowState, exportTasks, done, updVars, batchVars>>

\* celery hands a worker one of the tasks that take an id
InvokeWithId(w, t, id) ==
  /\ pc[w] = "idle"
  /\ pc' = [pc EXCEPT ![w] = "lookup"]
  /\ task' = [task EXCEPT ![w] = t]
  /\ result' = [result EXCEPT ![w] = "none"]
  /\ arg' = [arg EXCEPT ![w] = id]
  /\ UNCHANGED <<runVars, lock, ttlElapsed, sweepNow, timeoutLocals, events, countVars,
                 squashLocals, cache, nRuns, scheduled, rd, chain, follow, flowState,
                 entVars, updVars, batchVars>>

\* export_task = ExportFlowResultsTask.objects.filter(pk=id).first()
\* if export_task: export_task.start_export()
ExportFlowResults(w) ==
  /\ pc[w] = "lookup"
  /\ task[w] = EXPORT_FLOW_RESULTS
  /\ done' = IF arg[w] \in exportTasks THEN done \cup {<<"start_export", arg[w]>>}
             ELSE done
  /\ pc' = [pc EXCEPT ![w] = "idle"]
  /\ arg' = [arg EXCEPT ![w] = "f1"]
  /\ UNCHANGED <<runVars, lock, task, result, ttlElapsed, sweepNow, timeoutLocals,
                 events, countVars, squashLocals, cache, nRuns, scheduled, rd, chain,
                 follow, flowState, exportTasks, flowStarts, updVars, batchVars>>

\* flow_start = FlowStart.objects.get(pk=start_id): raises DoesNotExist
\* without a row; flow_start.start()
StartFlow(w) ==
  /\ pc[w] = "lookup"
  /\ task[w] = START_FLOW
  /\ IF arg[w] \in flowStarts
     THEN /\ done' = done \cup {<<"start", arg[w]>>}
          /\ UNCHANGED result
     ELSE /\ result' = [result EXCEPT ![w] = "error"]
          /\ UNCHANGED done
  /\ pc' = [pc EXCEPT ![w] = "idle"]
  /\ arg' = [arg EXCEPT ![w] = "f1"]
  /\ UNCHANGED <<runVars, lock, task, ttlElapsed, sweepNow, timeoutLocals, events,
                 countVars, squashLocals, cache, nRuns, scheduled, rd, chain, follow,
                 flowState, exportTasks, flowStarts, updVars, batchVars>>

\* flow = Flow.objects.get(id=flow_id): raises DoesNotExist without a row;
\* flow.delete_results()
DeleteFlowResults(w) ==
  /\ pc[w] = "lookup"
  /\ task[w] = DELETE_FLOW_RESULTS
  /\ IF flowState[arg[w]] # "missing"
     THEN /\ done' = done \cup {<<"delete_results", arg[w]>>}
          /\ UNCHANGED result
     ELSE /\ result' = [result EXCEPT ![w] = "error"]
          /\ UNCHANGED done
  /\ pc' = [pc EXCEPT ![w] = "idle"]
  /\ arg' = [arg EXCEPT ![w] = "f1"]
  /\ UNCHANGED <<runVars, lock, task, ttlElapsed, sweepNow, timeoutLocals, events,
                 countVars, squashLocals, cache, nRuns, scheduled, rd, chain, follow,
                 flowState, exportTasks, flowStarts, updVars, batchVars>>

\* ------------------------------------------- update_run_expirations_task
\* the flow's expiration period was changed: the task is queued for the flow
InvokeUpdate(w, f) ==
  /\ pc[w] = "idle"
  /\ pc' = [pc EXCEPT ![w] = "steps"]
  /\ task' = [task EXCEPT ![w] = UPDATE_RUN_EXPIRATIONS]
  /\ result' = [result EXCEPT ![w] = "none"]
  /\ arg' = [arg EXCEPT ![w] = f]
  /\ outer' = [outer EXCEPT ![w] = FALSE]
  /\ UNCHANGED <<runVars, lock, ttlElapsed, sweepNow, timeoutLocals, events, countVars,
                 squashLocals, cache, nRuns, scheduled, rd, chain, follow, flowState,
                 entVars, updTodo, batchVars>>

\* FlowStep.objects.filter(run__flow__id=flow_id, run__is_active=True,
\* left_on=None).distinct('run'): one current step for each live run of the flow
ActiveRunsOf(f) == {r \in DOMAIN runs : FlowOf(r) = f /\ runs[r].is_active}

\* variant: the sweep is applied before the loop over the steps
UpdateQuery_ApplyFirst(w) ==
  /\ pc[w] = "steps"
  /\ updTodo' = [updTodo EXCEPT ![w] = ActiveRunsOf(arg[w])]
  /\ pc' = [pc EXCEPT ![w] = "apply"]
  /\ UNCHANGED <<runVars, lock, task, result, ttlElapsed, sweepNow, timeoutLocals,
                 events, countVars, squashLocals, statVars, flowState, entVars, outer, batchVars>>

UpdateQuery(w) ==
  /\ pc[w] = "steps"
  /\ updTodo' = [updTodo EXCEPT ![w] = ActiveRunsOf(arg[w])]
  /\ pc' = [pc EXCEPT ![w] = IF ActiveRunsOf(arg[w]) = {} THEN "apply" ELSE "update"]
  /\ UNCHANGED <<runVars, lock, task, result, ttlElapsed, sweepNow, timeoutLocals,
                 events, countVars, squashLocals, statVars, flowState, entVars, outer, batchVars>>

\* run.update_expiration(step.arrived_on): the run's deadline becomes e,
\* the arrival time of its current step moved on by the new period
UpdateExpiration(r, e) == [runs EXCEPT ![r].expires_on = e]

\* for step in ...: step.run.update_expiration(step.arrived_on)
UpdateLoop(w) ==
  /\ pc[w] = "update"
  /\ \E r \in updTodo[w], e \in 0..MaxNow :
       /\ runs' = UpdateExpiration(r, e)
       /\ updTodo' = [updTodo EXCEPT ![w] = @ \ {r}]
       /\ pc' = [pc EXCEPT ![w] = IF updTodo[w] = {r} THEN "apply" ELSE "update"]
  /\ clean' = NotClean
  /\ UNCHANGED <<now, exited, lock, task, result, ttlElapsed, sweepNow, timeoutLocals,
                 events, countVars, squashLocals, statVars, flowState, entVars, outer, batchVars>>

\* check_flows_task.apply(): the expiry sweep runs inline, in this worker
UpdateApply(w) ==
  /\ pc[w] = "apply"
  /\ pc' = [pc EXCEPT ![w] = "get"]
  /\ task' = [task EXCEPT ![w] = CHECK_FLOWS]
  /\ outer' = [outer EXCEPT ![w] = TRUE]
  /\ arg' = [arg EXCEPT ![w] = "f1"]
  /\ UNCHANGED <<runVars, lock, result, ttlElapsed, sweepNow, timeoutLocals, events,
                 countVars, squashLocals, cache, nRuns, scheduled, rd, chain, follow,
                 flowState, entVars, updTodo, batchVars>>

\* ---------------------------------------------- start_msg_flow_batch_task
\* the flow is archived: its row stays, with is_active=False
DeactivateFlow(f) ==
  /\ flowState[f] = "active"
  /\ flowState' = [flowState EXCEPT ![f] = "inactive"]
  /\ UNCHANGED <<runVars, lock, pc, task, result, ttlElapsed, sweepNow, timeoutLocals,
                 events, countVars, squashLocals, statVars, entVars, updVars, batchVars>>

\* celery starts one more invocation, whether or not an entry waits for it
InvokeBatch(w) ==
  /\ pc[w] = "idle"
  /\ pc' = [pc EXCEPT ![w] = "pop"]
  /\ task' = [task EXCEPT ![w] = START_MSG_FLOW_BATCH]
  /\ result' = [result EXCEPT ![w] = "none"]
  /\ UNCHANGED <<runVars, lock, ttlElapsed, sweepNow, timeoutLocals, events, countVars,
                 squashLocals, statVars, flowState, entVars, updVars, batchVars>>

\* pop_task(queue): the queue after entry e was taken off it
PopTask(q, e) == q \ {e}

\* task = pop_task('start_msg_flow_batch'); if task is None: return
BatchPop(w) ==
  /\ pc[w] = "pop"
  /\ IF batchQueue = {}
     THEN /\ pc' = [pc EXCEPT ![w] = "idle"]
          /\ UNCHANGED <<batchQueue, popped>>
     ELSE \E e \in batchQueue :
            /\ batchQueue' = PopTask(batchQueue, e)
            /\ popped' = [popped EXCEPT ![w] = e]
            /\ pc' = [pc EXCEPT ![w] = "flow"]
  /\ UNCHANGED <<runVars, lock, task, result, ttlElapsed, sweepNow, timeoutLocals,
                 events, countVars, squashLocals, statVars, flowState, entVars, updVars,
                 started, dropped>>

\* variant: the lookup without is_active=True
FindFlow_AnyState(f) == flowState[f] # "missing"

\* Flow.objects.filter(pk=task['flow'], is_active=True).first() finds a row
FindFlow(f) == flowState[f] = "active"

\* flow = ...; if not flow: return
BatchFlow(w) ==
  /\ pc[w] = "flow"
  /\ IF FindFlow(popped[w].flow)
     THEN /\ pc' = [pc EXCEPT ![w] = "start"]
          /\ UNCHANGED <<popped, dropped>>
     ELSE /\ pc' = [pc EXCEPT ![w] = "idle"]
          /\ dropped' = dropped \cup {popped[w]}
          /\ popped' = [popped EXCEPT ![w] = NoEntry]
  /\ UNCHANGED <<runVars, lock, task, result, ttlElapsed, sweepNow, timeoutLocals,
                 events, countVars, squashLocals, statVars, flowState, entVars, updVars,
                 batchQueue, started>>

\* flow.start_msg_flow_batch(task['contacts'], ...)
BatchStart(w) ==
  /\ pc[w] = "start"
  /\ started' = started (+) SetToBag({popped[w].id})
  /\ popped' = [popped EXCEPT ![w] = NoEntry]
  /\ pc' = [pc EXCEPT ![w] = "idle"]
  /\ UNCHANGED <<runVars, lock, task, result, ttlElapsed, sweepNow, timeoutLocals,
                 events, countVars, squashLocals, statVars, flowState, entVars, updVars,
                 batchQueue, dropped>>

\* ---------------------------------------------------------- specifications
EnvExpiry ==
  \/ \E r \in RunIds, e \in Deadlines : StartRun(r, e, NULL)
  \/ \E r \in RunIds : CompleteRun(r)
  \/ Tick

LockSteps ==
  \/ \E w \in Workers : GuardGet(w)
  \/ \E w \in Workers : LockAcquire(w)
  \/ \E w \in Workers : LockRelease(w)
  \/ \E w \in Workers : Crash(w)
  \/ \E k \in Keys : KeyExpire(k)

NextExpiry ==
  \/ \E w \in Workers : Invoke(w, CHECK_FLOWS)
  \/ \E w \in Workers : CheckFlowsFilter(w)
  \/ \E w \in Workers : CheckFlowsBulkExit(w)
  \/ LockSteps
  \/ EnvExpiry

SpecExpiry == Init /\ [][NextExpiry]_vars

EnvTimeouts ==
  \/ \E r \in RunIds, t \in Deadlines : StartRun(r, NULL, t)
  \/ \E r \in RunIds : CompleteRun(r)
  \/ Tick

NextTimeouts ==
  \/ \E w \in Workers : Invoke(w, CHECK_FLOW_TIMEOUTS)
  \/ \E w \in Workers : TimeoutsQuery(w)
  \/ \E w \in Workers : TimeoutsPush(w)
  \/ \E w \in Workers : TimeoutsPushFail(w)
  \/ LockSteps
  \/ EnvTimeouts

SpecTimeouts == Init /\ [][NextTimeouts]_vars

NextSquash ==
  \/ \E w \in Workers : Invoke(w, SQUASH_FLOWRUNCOUNTS)
  \/ \E w \in Workers : SquashCounts(w)
  \/ \E w \in Workers : SquashFlow(w)
  \/ \E f \in Flows : Increment(f)
  \/ LockSteps

SpecSquash == Init /\ [][NextSquash]_vars

\* all three sweepers side by side over a small store: one run, due for
\* expiry and for timeout from the start, and one counted flow
Env ==
  \/ \E r \in {1} : StartRun(r, now, now)
  \/ \E f \in {"f1"} : issued[f] = 0 /\ Increment(f)

Next ==
  \/ \E w \in Workers, t \in Keys : Invoke(w, t)
  \/ \E w \in Workers : CheckFlowsFilter(w)
  \/ \E w \in Workers : CheckFlowsBulkExit(w)
  \/ \E w \in Workers : TimeoutsQuery(w)
  \/ \E w \in Workers : TimeoutsPush(w)
  \/ \E w \in Workers : TimeoutsPushFail(w)
  \/ \E w \in Workers : SquashCounts(w)
  \/ \E w \in Workers : SquashFlow(w)
  \/ LockSteps
  \/ Env

Spec == Init /\ [][Next]_vars

\* a worker that is running a task takes its next step; the process may
\* die instead (Crash), nothing forces that
WorkerStep(w) ==
  \/ GuardGet(w)
  \/ CheckFlowsFilter(w)
  \/ CheckFlowsBulkExit(w)
  \/ TimeoutsQuery(w)
  \/ TimeoutsPush(w)
  \/ TimeoutsPushFail(w)
  \/ SquashCounts(w)
  \/ SquashFlow(w)
  \/ LockRelease(w)

\* celery runs a started task to its end, the lock's retry loop gets the
\* key if the key keeps coming free, and redis expires a key with a TTL
Fairness ==
  /\ \A w \in Workers : WF_vars(WorkerStep(w))
  /\ \A w \in Workers : SF_vars(LockAcquire(w))
  /\ \A k \in Keys : WF_vars(KeyExpire(k))

\* the expiry and the timeout sweeper over one run that is due for both,
\* with the fairness above
NextLive ==
  \/ \E w \in Workers, t \in {CHECK_FLOWS, CHECK_FLOW_TIMEOUTS} : Invoke(w, t)
  \/ \E w \in Workers : CheckFlowsFilter(w)
  \/ \E w \in Workers : CheckFlowsBulkExit(w)
  \/ \E w \in Workers : TimeoutsQuery(w)
  \/ \E w \in Workers : TimeoutsPush(w)
  \/ \E w \in Workers : TimeoutsPushFail(w)
  \/ LockSteps
  \/ \E r \in {1} : StartRun(r, now, now)

SpecLive == Init /\ [][NextLive]_vars /\ Fairness

\* values the cache may hold for a flow when the tasks start: no key, or a
\* count that may be wrong
CacheSeeds == {NULL, 0, 1}

\* the stats tasks alone, the cache seeded with any of these
InitStats ==
  /\ InitSweepers
  /\ InitLocals
  /\ cache \in [Flows -> CacheSeeds]
  /\ nRuns = [f \in Flows |-> [real |-> 0, test |-> 0]]
  /\ flowState = [f \in Flows |-> "active"]
  /\ InitEntities
  /\ batchQueue = {}

EnvStats ==
  \/ \E f \in Flows, kind \in {"real", "test"} : NewRun(f, kind)
  \/ DeleteFlow("f2")

NextStats ==
  \/ \E w \in Workers, f \in Flows : InvokeCheck(w, f)
  \/ \E w \in Workers, f \in Flows : RunScheduled(w, f)
  \/ \E w \in Workers : StatsGetFlow(w)
  \/ \E w \in Workers : StatsReadCache(w)
  \/ \E w \in Workers : StatsCount(w)
  \/ \E w \in Workers : AccuracyCompare(w)
  \/ \E w \in Workers : CalculateCompare(w)
  \/ EnvStats

SpecStats == InitStats /\ [][NextStats]_vars

\* the tasks that take an entity id, racing with deletion of the entities
NextEntities ==
  \/ \E w \in Workers, id \in EntityIds : InvokeWithId(w, EXPORT_FLOW_RESULTS, id)
  \/ \E w \in Workers, id \in EntityIds : InvokeWithId(w, START_FLOW, id)
  \/ \E w \in Workers, f \in Flows : InvokeWithId(w, DELETE_FLOW_RESULTS, f)
  \/ \E w \in Workers : ExportFlowResults(w)
  \/ \E w \in Workers : StartFlow(w)
  \/ \E w \in Workers : DeleteFlowResults(w)
  \/ \E id \in EntityIds : DeleteExportTask(id)
  \/ \E id \in EntityIds : DeleteFlowStart(id)
  \/ \E f \in Flows : DeleteFlow(f)

SpecEntities == Init /\ [][NextEntities]_vars

\* update_run_expirations_task next to the periodic expiry sweep; no worker
\* dies
EnvUpdate ==
  \/ \E r \in RunIds, e \in 0..MaxNow : StartRun(r, e, NULL)
  \/ Tick

NextUpdate ==
  \/ \E w \in Workers, f \in Flows : InvokeUpdate(w, f)
  \/ \E w \in Workers : UpdateQuery(w)
  \/ \E w \in Workers : UpdateLoop(w)
  \/ \E w \in Workers : UpdateApply(w)
  \/ \E w \in Workers : Invoke(w, CHECK_FLOWS)
  \/ \E w \in Workers : GuardGet(w)
  \/ \E w \in Workers : LockAcquire(w)
  \/ \E w \in Workers : CheckFlowsFilter(w)
  \/ \E w \in Workers : CheckFlowsBulkExit(w)
  \/ \E w \in Workers : LockRelease(w)
  \/ KeyExpire(CHECK_FLOWS)
  \/ EnvUpdate

SpecUpdate == Init /\ [][NextUpdate]_vars

\* the expiry sweeper started again and again by the scheduler, after a
\* worker died holding the check_flows key; no further worker dies. Run 1
\* gets any deadline and ends by expiry only, run 2 is due when it starts
\* and may complete before a sweep reaches it
InitZombie ==
  /\ InitStores
  /\ lock = [k \in Keys |-> IF k = CHECK_FLOWS
                            THEN [holder |-> "dead", ttl |-> LockTimeout]
                            ELSE NoLock]
  /\ InitLocals
  /\ cache = [f \in Flows |-> NULL]
  /\ nRuns = [f \in Flows |-> [real |-> 0, test |-> 0]]
  /\ flowState = [f \in Flows |-> "active"]
  /\ InitEntities
  /\ batchQueue = {}

NextExpiryLive ==
  \/ \E w \in Workers : Invoke(w, CHECK_FLOWS)
  \/ \E w \in Workers : GuardGet(w)
  \/ \E w \in Workers : LockAcquire(w)
  \/ \E w \in Workers : CheckFlowsFilter(w)
  \/ \E w \in Workers : CheckFlowsBulkExit(w)
  \/ \E w \in Workers : LockRelease(w)
  \/ KeyExpire(CHECK_FLOWS)
  \/ \E e \in 0..MaxNow : StartRun(1, e, NULL)
  \/ StartRun(2, now, NULL)
  \/ CompleteRun(2)
  \/ Tick

\* the scheduler keeps invoking check_flows_task
Scheduler == WF_vars(\E w \in Workers : Invoke(w, CHECK_FLOWS))

SpecExpiryLive == InitZombie /\ [][NextExpiryLive]_vars /\ Fairness /\ Scheduler

\* the expiry and the timeout sweeper over one run, no worker dies
NextRelease ==
  \/ \E w \in Workers, t \in {CHECK_FLOWS, CHECK_FLOW_TIMEOUTS} : Invoke(w, t)
  \/ \E w \in Workers : GuardGet(w)
  \/ \E w \in Workers : LockAcquire(w)
  \/ \E w \in Workers : CheckFlowsFilter(w)
  \/ \E w \in Workers : CheckFlowsBulkExit(w)
  \/ \E w \in Workers : TimeoutsQuery(w)
  \/ \E w \in Workers : TimeoutsPush(w)
  \/ \E w \in Workers : TimeoutsPushFail(w)
  \/ \E w \in Workers : LockRelease(w)
  \/ \E k \in {CHECK_FLOWS, CHECK_FLOW_TIMEOUTS} : KeyExpire(k)
  \/ \E r \in {1} : StartRun(r, now, now)
  \/ Tick

SpecRelease == Init /\ [][NextRelease]_vars

\* the batch starter with more invocations than entries, while flows are
\* archived or deleted
InitBatch ==
  /\ InitSweepers
  /\ InitLocals
  /\ cache = [f \in Flows |-> NULL]
  /\ nRuns = [f \in Flows |-> [real |-> 0, test |-> 0]]
  /\ flowState = [f \in Flows |-> "active"]
  /\ InitEntities
  /\ batchQueue \in SUBSET BatchEntries

NextBatch ==
  \/ \E w \in Workers : InvokeBatch(w)
  \/ \E w \in Workers : BatchPop(w)
  \/ \E w \in Workers : BatchFlow(w)
  \/ \E w \in Workers : BatchStart(w)
  \/ \E f \in Flows : DeactivateFlow(f)
  \/ \E f \in Flows : DeleteFlow(f)

SpecBatch == InitBatch /\ [][NextBatch]_vars

\* ------------------------------------------------------------------ claims
\* the step in which worker w leaves line l of its task
Leaves(w, l) == pc[w] = l /\ pc'[w] # l

\* C1: a sweeper invoked while its key is held by somebody returns at once,
\* and that step changes no run, publishes no event and squashes no counter
C1_OverlapGuard ==
  [][\A w \in Workers :
       (Leaves(w, "get") /\ lock[task[w]] # NoLock) =>
         /\ pc'[w] = "idle"
         /\ runs' = runs
         /\ events' = events
         /\ unsq' = unsq /\ agg' = agg
         /\ lock' = lock]_vars

\* C1 witness: an expiry sweep was skipped on a key another worker holds,
\* with a run due for expiry in the table
C1_Witness ==
  \E w \in Workers :
    /\ pc[w] = "idle" /\ result[w] = "skipped" /\ task[w] = CHECK_FLOWS
    /\ lock[CHECK_FLOWS].holder \in Workers \ {w}
    /\ \E r \in DOMAIN runs :
         runs[r].is_active /\ runs[r].expires_on # NULL /\ runs[r].expires_on <= now

\* C2: the bulk exit of an expiry sweep that read the clock at t turns
\* exactly the active runs with a deadline <= t into inactive, expired runs
\* and leaves every other row as it was
C2_ExpiryPostcondition ==
  [][\A w \in Workers :
       (pc[w] = "bulk_exit" /\ pc'[w] = "unlock") =>
         /\ DOMAIN runs' = DOMAIN runs
         /\ sweepNow[w] <= now
         /\ \A r \in DOMAIN runs :
              runs'[r] =
                IF /\ runs[r].is_active
                   /\ runs[r].expires_on # NULL
                   /\ runs[r].expires_on <= sweepNow[w]
                THEN [runs[r] EXCEPT !.is_active = FALSE, !.exit_type = "expired"]
                ELSE runs[r]]_vars

\* C2 witness: a finished sweep left one run expired and a completed run,
\* whose deadline had passed too, completed
C2_Witness ==
  \E w \in Workers, r1, r2 \in DOMAIN runs :
    /\ pc[w] = "unlock" /\ task[w] = CHECK_FLOWS
    /\ ~runs[r1].is_active /\ runs[r1].exit_type = "expired"
    /\ ~runs[r2].is_active /\ runs[r2].exit_type = "completed"
    /\ runs[r2].expires_on # NULL /\ runs[r2].expires_on <= sweepNow[w]

\* C3: an expiry sweep that follows another one, with no run created or
\* completed in between, changes no run unless the clock has reached that
\* run's deadline since (none when both read the same clock), and no run
\* is bulk-exited twice
C3_IdempotentBulkExit ==
  /\ [](\A r \in RunIds : exited[r] <= 1)
  /\ [][\A w \in Workers :
          (pc[w] = "bulk_exit" /\ pc'[w] = "unlock" /\ clean.n >= 1) =>
            \A r \in DOMAIN runs :
              runs'[r] # runs[r] =>
                (clean.at < runs[r].expires_on /\ runs[r].expires_on <= sweepNow[w])]_vars

\* C3 witness: a second sweep finished straight after a first one that had
\* expired a run, at the same clock reading
C3_Witness ==
  \E w \in Workers, r \in DOMAIN runs :
    /\ pc[w] = "unlock" /\ task[w] = CHECK_FLOWS
    /\ clean.n = 2 /\ clean.at = sweepNow[w] /\ sweepNow[w] = now
    /\ exited[r] = 1 /\ runs[r].exit_type = "expired"

\* C4: the timeout query evaluated at clock t fetches exactly the active
\* runs whose timeout deadline is set and <= t
C4_TimeoutSelection ==
  [][\A w \in Workers :
       (pc[w] = "query" /\ pc'[w] \in {"push", "unlock"}) =>
         /\ sweepNow'[w] = now
         /\ {row.id : row \in sel'[w]} =
              {r \in DOMAIN runs : /\ runs[r].is_active
                                   /\ runs[r].timeout_on # NULL
                                   /\ runs[r].timeout_on <= now}
         /\ \A row \in sel'[w] : /\ row.timeout_on = runs[row.id].timeout_on
                                 /\ row.org_id = runs[row.id].org]_vars

\* C4 witness: a query fetched a run whose deadline is the clock reading
\* and left out an active run whose deadline is one unit later
C4_Witness ==
  \E w \in Workers, r \in DOMAIN runs :
    /\ pc[w] = "push" /\ sweepNow[w] = now
    /\ \E row \in sel[w] : row.timeout_on = now
    /\ runs[r].is_active /\ runs[r].timeout_on = now + 1
    /\ r \notin {row.id : row \in sel[w]}

\* the task the handler queue must hold for a fetched row
ExpectedEvent(row) ==
  [org |-> runs[row.id].org, queue |-> "handler", task |-> "handle_event",
   args |-> [type |-> "timeout", run |-> row.id, timeout_on |-> row.timeout_on]]

\* C5: while no publish has failed, a timeout sweep has pushed exactly one
\* task per fetched row its loop has passed, addressed to the run's org on
\* queue "handler" as "handle_event" with the timeout payload, and nothing
\* else; when it completes that is one task for every fetched row, all of
\* them on the handler queue
C5_TimeoutDispatch ==
  \A w \in Workers :
    (task[w] = CHECK_FLOW_TIMEOUTS /\ pc[w] \in {"push", "unlock"} /\ result[w] = "none") =>
      /\ sent[w] = SetToBag({ExpectedEvent(row) : row \in sel[w] \ todo[w]})
      /\ sent[w] \sqsubseteq events
      /\ pc[w] = "unlock" => todo[w] = {}

\* C5 witness: a sweep completed without a failure after fetching both runs
C5_Witness ==
  \E w \in Workers :
    /\ task[w] = CHECK_FLOW_TIMEOUTS /\ pc[w] = "unlock" /\ result[w] = "none"
    /\ Cardinality(sel[w]) = 2
    /\ BagCardinality(sent[w]) = 2

\* C6: when a timeout sweep leaves its loop, at most one of the rows it
\* fetched (the one whose publish failed) is without a pushed task
C6_PartialFailureIsolation ==
  \A w \in Workers :
    (task[w] = CHECK_FLOW_TIMEOUTS /\ pc[w] = "unlock") =>
      Cardinality({row \in sel[w] : ~BagIn(ExpectedEvent(row), sent[w])}) <= 1

\* C7: no step of a timeout sweep changes the run table, the counters or
\* another task's lock key
C7_TimeoutFrame ==
  [][\A w \in Workers :
       (/\ task[w] = CHECK_FLOW_TIMEOUTS
        /\ pc[w] # "idle"
        /\ <<pc[w], todo[w]>> # <<pc'[w], todo'[w]>>) =>
         /\ runs' = runs
         /\ unsq' = unsq /\ agg' = agg
         /\ \A k \in Keys \ {CHECK_FLOW_TIMEOUTS} : lock'[k] = lock[k]]_vars

\* C7 witness: a task was pushed for a run and the run is still active
\* with the deadline that was signalled
C7_Witness ==
  \E w \in Workers :
    /\ task[w] = CHECK_FLOW_TIMEOUTS /\ pc[w] \in {"push", "unlock"}
    /\ \E row \in sel[w] \ todo[w] :
         /\ BagIn(ExpectedEvent(row), events)
         /\ runs[row.id].is_active
         /\ runs[row.id].timeout_on = row.timeout_on

\* workers inside the with block of key k whose key has not expired
LiveHolders(k) ==
  {w \in Workers : /\ task[w] = k
                   /\ (InBody(w) \/ pc[w] = "unlock")
                   /\ ~ttlElapsed[w]}

\* C8: for every key at most one worker is inside the guarded body with
\* its TTL not elapsed, and that worker is the one the key names
C8_LockMutualExclusion ==
  \A k \in Keys :
    /\ Cardinality(LiveHolders(k)) <= 1
    /\ \A w \in LiveHolders(k) : lock[k].holder = w

\* C8 witness: two workers passed r.get(key) before either held the key;
\* one is in the body, the other waits
C8_Witness ==
  \E w1, w2 \in Workers :
    /\ w1 # w2 /\ task[w1] = task[w2]
    /\ InBody(w1) /\ ~ttlElapsed[w1]
    /\ pc[w2] = "lock"

C10_SquashConservation ==
  /\ \A f \in Flows : agg[f] + unsq[f] = issued[f]
  /\ \A w \in Workers :
       (/\ task[w] = SQUASH_FLOWRUNCOUNTS /\ pc[w] = "unlock"
        /\ result[w] = "none" /\ ~incDuring[w]) =>
         \A f \in Flows : unsq[f] = 0 /\ agg[f] = issued[f]

\* C10 witness: a squash ended after collapsing rows of both flows, with
\* an aggregate that an earlier squash had started
C10_Witness ==
  \E w \in Workers :
    /\ task[w] = SQUASH_FLOWRUNCOUNTS /\ pc[w] = "unlock" /\ ~incDuring[w]
    /\ agg["f1"] >= 2 /\ agg["f2"] >= 1
    /\ unsq["f1"] = 0 /\ unsq["f2"] = 0

\* C11: a check started while the cached count differs from the number of
\* the flow's runs with a real contact schedules a recompute (it is never
\* "missed"), and once that recompute has run, with no run created since
\* the check started, the cached count equals that number
C11_CacheSelfHeal ==
  \A f \in Flows :
    /\ chain[f] # "missed"
    /\ chain[f] = "healed" => cache[f] = nRuns[f].real

\* a cache seeded with 1 for a flow whose only run has a test contact was
\* repaired to 0
C11_Witness ==
  \E f \in Flows : chain[f] = "healed" /\ nRuns[f].test = 1 /\ cache[f] = 0

\* C12: no step of check_flow_stats_accuracy_task writes the cache, the run
\* table or the flow table; it reads a missing cache entry as 0; its last
\* step queues one calculate_flow_stats_task for its flow if the count it
\* read differs from the cached value it read, and queues nothing otherwise
C12_CheckThenRepair ==
  [][\A w \in Workers :
       (task[w] = CHECK_FLOW_STATS_ACCURACY /\ pc[w] # "idle" /\ pc'[w] # pc[w]) =>
         /\ cache' = cache /\ nRuns' = nRuns /\ flowState' = flowState
         /\ pc[w] = "read_cache" =>
              rd'[w].cached = (IF cache[arg[w]] = NULL THEN 0 ELSE cache[arg[w]])
         /\ pc[w] = "count" => rd'[w].count = nRuns[arg[w]].real
         /\ scheduled' = IF pc[w] = "compare" /\ rd[w].count # rd[w].cached
                         THEN [scheduled EXCEPT ![arg[w]] = @ + 1]
                         ELSE scheduled]_vars

\* a recompute is queued for a flow with one run and no cache entry, and the
\* cache is still as it was
C12_Witness ==
  \E f \in Flows :
    /\ scheduled[f] = 1 /\ chain[f] = "checked"
    /\ cache[f] = NULL /\ nRuns[f].real = 1
    /\ \A w \in Workers : pc[w] = "idle"

\* C13: calculate_flow_stats_task writes the cache in its last step only,
\* and only if the count and the cached value it read differ; what it then
\* writes is the current count of the flow's runs with a real contact, for
\* its own flow only
C13_RecomputeRecheck ==
  [][\A w \in Workers :
       (task[w] = CALCULATE_FLOW_STATS /\ pc[w] # "idle" /\ pc'[w] # pc[w]) =>
         /\ pc[w] = "read_cache" =>
              rd'[w].cached = (IF cache[arg[w]] = NULL THEN 0 ELSE cache[arg[w]])
         /\ pc[w] = "count" => rd'[w].count = nRuns[arg[w]].real
         /\ (pc[w] # "compare" \/ rd[w].count = rd[w].cached) => cache' = cache
         /\ cache' # cache =>
              cache' = [cache EXCEPT ![arg[w]] = nRuns[arg[w]].real]]_vars

\* a recompute has re-read cache and count and finds them equal because an
\* earlier recompute already repaired the flow's cache
C13_Witness ==
  \E w \in Workers :
    /\ pc[w] = "compare" /\ task[w] = CALCULATE_FLOW_STATS
    /\ rd[w].count = rd[w].cached /\ rd[w].count = 1
    /\ chain[arg[w]] = "healed"
    /\ cache[arg[w]] = 1

\* C14: a task invoked with the id of an entity that no longer exists ends
\* without an error (and has handed no work to the models)
C14_MissingEntityNoOp ==
  \A w \in Workers :
    task[w] \in {EXPORT_FLOW_RESULTS, START_FLOW, DELETE_FLOW_RESULTS} =>
      result[w] # "error"

\* the sweep a worker runs inline for update_run_expirations_task
Inline(w) == outer[w] /\ task[w] = CHECK_FLOWS

Due(r) ==
  /\ r \in DOMAIN runs
  /\ runs[r].is_active
  /\ runs[r].expires_on # NULL
  /\ runs[r].expires_on <= now

\* C16: with check_flows_task invoked again and again, running invocations
\* going on to their end and held keys released or expiring, every run
\* that is live with its expiry deadline reached is eventually not live
C16_EventualExpiry ==
  \A r \in RunIds : Due(r) ~> (r \in DOMAIN runs /\ ~runs[r].is_active)

\* the key of the dead holder is gone and both runs were expired by sweeps
C16_Witness ==
  /\ lock[CHECK_FLOWS] = NoLock
  /\ \A r \in RunIds :
       /\ r \in DOMAIN runs
       /\ runs[r].exit_type = EXIT_TYPE_EXPIRED
       /\ exited[r] = 1

\* C17: a worker whose sweeper invocation has ended, normally or with an
\* exception, holds no lock key; so an invocation that is skipped at the
\* guard is skipped for a key whose holder is still running
C17_ReleaseOnCompletion ==
  /\ [](\A w \in Workers, k \in Keys : pc[w] = "idle" => lock[k].holder # w)
  /\ [][\A w \in Workers :
         (pc[w] = "get" /\ result'[w] = "skipped") =>
           /\ lock[task[w]].holder \in Workers
           /\ pc[lock[task[w]].holder] # "idle"]_vars

\* a timeout sweep ended with an exception before it published for the due
\* run, and its key is free
C17_Witness ==
  \E w \in Workers :
    /\ pc[w] = "idle" /\ task[w] = CHECK_FLOW_TIMEOUTS /\ result[w] = "error"
    /\ lock[CHECK_FLOW_TIMEOUTS] = NoLock
    /\ 1 \in DOMAIN runs /\ events = EmptyBag

\* two expiry sweeps ran side by side: both have done their bulk exit and
\* neither has left its with block, and no run was started, completed or
\* given a new deadline since before the first of the two bulk exits
Overlapped ==
  /\ \A w \in Workers : task[w] = CHECK_FLOWS /\ pc[w] = "unlock"
  /\ clean.n = 2

\* C18: after two overlapping expiry sweeps every run is as one sweep
\* would have left it: no run got more than one bulk-exit update, a run
\* got one exactly if it is now not live with exit type "expired", a
\* completed run kept its exit type, and no live run is left with a
\* deadline at or before the clock readings of the sweeps
C18_OverlapTolerance ==
  Overlapped =>
    \A r \in DOMAIN runs :
      /\ exited[r] <= 1
      /\ exited[r] = 1 <=> (~runs[r].is_active /\ runs[r].exit_type = EXIT_TYPE_EXPIRED)
      /\ runs[r].exit_type = EXIT_TYPE_COMPLETED => ~runs[r].is_active
      /\ runs[r].is_active =>
           (runs[r].expires_on = NULL \/ runs[r].expires_on > clean.at)

\* two overlapping sweeps both had a due run in reach; it was exited once,
\* and a run without a deadline is still live
C18_Witness ==
  /\ Overlapped
  /\ \E w \in Workers : ttlElapsed[w]
  /\ \E r, s \in DOMAIN runs :
       /\ exited[r] = 1
       /\ \A w \in Workers : runs[r].expires_on <= sweepNow[w]
       /\ runs[s].is_active /\ runs[s].expires_on = NULL

\* a timeout task for the run's present deadline is on the handler queue
Signalled(r) ==
  \E e \in BagToSet(events) :
    e.args.run = r /\ e.args.timeout_on = runs[r].timeout_on

\* the run is live with its timeout deadline reached
TimeoutDue(r) ==
  runs[r].is_active /\ runs[r].timeout_on # NULL /\ runs[r].timeout_on <= now

\* C19: a timeout sweep that gets past the lock fetches every run that is
\* live with its timeout deadline reached, both the runs no task was
\* pushed for yet and the runs a task was already pushed for
C19_RetryByReselection ==
  [][\A w \in Workers :
       (pc[w] = "query" /\ pc'[w] \in {"push", "unlock"}) =>
         \A r \in DOMAIN runs :
           /\ (TimeoutDue(r) /\ ~Signalled(r)) => \E row \in sel'[w] : row.id = r
           /\ (TimeoutDue(r) /\ Signalled(r)) => \E row \in sel'[w] : row.id = r]_vars

\* the same timeout task is on the handler queue twice, pushed by two
\* sweeps for a run that is still live with the same deadline
C19_Witness ==
  \E r \in DOMAIN runs, e \in BagToSet(events) :
    /\ runs[r].is_active
    /\ e.args.run = r /\ e.args.timeout_on = runs[r].timeout_on
    /\ CopiesIn(e, events) = 2
    /\ \A w \in Workers : pc[w] = "idle"

\* C20: no entry is started more than once; a step of
\* start_msg_flow_batch_task takes at most one entry off the queue and
\* never puts one back; an invocation that finds the queue empty returns
\* and changes nothing; one whose entry names a flow that is archived or
\* deleted returns without a start; a batch is started only by the last
\* step of an invocation, for the entry it popped
C20_BatchStartQueue ==
  /\ [](\A e \in BatchEntries : CopiesIn(e.id, started) <= 1)
  /\ [][\A w \in Workers :
         (task[w] = START_MSG_FLOW_BATCH /\ pc[w] # "idle" /\ pc'[w] # pc[w]) =>
           /\ batchQueue' \subseteq batchQueue
           /\ Cardinality(batchQueue \ batchQueue') <= 1
           /\ pc[w] # "pop" => batchQueue' = batchQueue
           /\ (pc[w] = "pop" /\ batchQueue = {}) =>
                /\ pc'[w] = "idle"
                /\ started' = started /\ flowState' = flowState /\ runs' = runs
           /\ (pc[w] = "flow" /\ flowState[popped[w].flow] # "active") =>
                pc'[w] = "idle" /\ started' = started
           /\ started' # started =>
                /\ pc[w] = "start"
                /\ started' = started (+) SetToBag({popped[w].id})]_vars

\* both entries were popped, one was started and the other, for a flow that
\* is no longer active, was consumed without a start
C20_Witness ==
  /\ batchQueue = {}
  /\ \A w \in Workers : pc[w] = "idle" /\ task[w] = START_MSG_FLOW_BATCH
  /\ started = SetToBag({"a"})
  /\ dropped = {[id |-> "b", flow |-> "f2"]}
  /\ flowState["f2"] = "inactive"

====
